---- MODULE Spec2Model ----
(***************************************************************************)
(* Meeting-Summarizer (src/main.py): the upload pipeline                   *)
(*   stage -> transcribe -> summarize -> parse -> insert -> respond        *)
(* and the record store behind /api/meetings.                              *)
(*                                                                         *)
(* Data representation.                                                    *)
(*   A Python str is a sequence of characters; a character is a TLA+       *)
(*   string.  Besides the one-character atoms "{", "}", "\n", " " and "a", *)
(*   a body atom (BodyNames) abbreviates the member text of a JSON object  *)
(*   (what stands between its outer braces).                               *)
(*   A Python value is [t |-> tag, v |-> sequence]: None, str (v = its     *)
(*   characters), num and bool (v = its literal), list and dict (v = the   *)
(*   items, each an atom).                                                 *)
(***************************************************************************)
EXTENDS Integers, Sequences, FiniteSets, TLC

(***************************************************************************)
(* Bounds of the model.                                                    *)
(***************************************************************************)
NumSlots == 2
    \* requests in flight at once (Spec)
MaxRows == 2
    \* rows the table may reach (Spec)
MaxRowsList == 202
    \* rows the table may reach (SpecList): more than the LIMIT of list_meetings
MaxPaths == 1
    \* names mkstemp can hand out to one slot
MaxGetId == 2
    \* ids a client asks get_meeting for
MaxReplyLen == 2
    \* length of the exhaustively enumerated model replies (SpecReplies)

(***************************************************************************)
(* Program constants.                                                      *)
(***************************************************************************)
TitleMax == 120
ListLimit == 200
SummaryLast == 6

(***************************************************************************)
(* Python values.                                                          *)
(***************************************************************************)
PyNone == [t |-> "none", v |-> <<>>]
PyStr(s) == [t |-> "str", v |-> s]
PyNum(lit) == [t |-> "num", v |-> <<lit>>]
PyBool(lit) == [t |-> "bool", v |-> <<lit>>]
PyList(items) == [t |-> "list", v |-> items]
PyDict(members) == [t |-> "dict", v |-> members]

\* Python truth value: None, "", 0, False, [] and {} are falsy.
Truthy(x) ==
    CASE x.t = "none" -> FALSE
      [] x.t = "str"  -> x.v # <<>>
      [] x.t = "num"  -> x.v # <<"0">>
      [] x.t = "bool" -> x.v = <<"true">>
      [] OTHER        -> x.v # <<>>

\* x or d
PyOr(x, d) == IF Truthy(x) THEN x ELSE d

(***************************************************************************)
(* Text helpers: str.strip, str.splitlines, "\n".join, slicing.            *)
(***************************************************************************)
Whitespace == {" ", "\n"}

IsBlank(s) == \A i \in 1..Len(s) : s[i] \in Whitespace

\* s.strip()
Strip(s) ==
    IF IsBlank(s) THEN <<>>
    ELSE LET lo == CHOOSE i \in 1..Len(s) :
                      /\ s[i] \notin Whitespace
                      /\ \A k \in 1..(i - 1) : s[k] \in Whitespace
             hi == CHOOSE i \in 1..Len(s) :
                      /\ s[i] \notin Whitespace
                      /\ \A k \in (i + 1)..Len(s) : s[k] \in Whitespace
         IN SubSeq(s, lo, hi)

\* s.splitlines(): the lines between "\n"; no empty last line after a final "\n".
RECURSIVE SplitLines(_)
SplitLines(s) ==
    IF s = <<>> THEN <<>>
    ELSE IF \E i \in 1..Len(s) : s[i] = "\n"
         THEN LET i == CHOOSE i \in 1..Len(s) :
                          s[i] = "\n" /\ \A k \in 1..(i - 1) : s[k] # "\n"
              IN <<SubSeq(s, 1, i - 1)>> \o SplitLines(SubSeq(s, i + 1, Len(s)))
         ELSE <<s>>

\* "\n".join(ls)
RECURSIVE JoinLines(_)
JoinLines(ls) ==
    IF ls = <<>> THEN <<>>
    ELSE IF Len(ls) = 1 THEN ls[1]
    ELSE ls[1] \o <<"\n">> \o JoinLines(Tail(ls))

\* [ln.strip() for ln in s.splitlines() if ln.strip()]
RECURSIVE StripNonBlank(_)
StripNonBlank(ls) ==
    IF ls = <<>> THEN <<>>
    ELSE IF Strip(ls[1]) = <<>> THEN StripNonBlank(Tail(ls))
    ELSE <<Strip(ls[1])>> \o StripNonBlank(Tail(ls))

NonBlankLines(s) == StripNonBlank(SplitLines(s))

\* The member texts of the JSON objects a model reply may embed (BodyObj gives
\* what each one parses to).
BodyNames == {"B_good", "B_str", "B_num", "B_falsy", "B_tlist"}

\* A body atom whose member text itself holds a nested {"task":"x"} object.
InnerBodies == {"B_good", "B_str"}

\* len(c) of one atom: a body atom is its member text, the others one character.
CharLen(c) ==
    CASE c = "B_good"  -> 78
      [] c = "B_str"   -> 46
      [] c = "B_num"   -> 56
      [] c = "B_falsy" -> 42
      [] c = "B_tlist" -> 13
      [] OTHER         -> 1

\* len(s), halving s so that the evaluation stays shallow
RECURSIVE TextLen(_)
TextLen(s) ==
    IF s = <<>> THEN 0
    ELSE IF Len(s) = 1 THEN CharLen(s[1])
    ELSE TextLen(SubSeq(s, 1, Len(s) \div 2))
         + TextLen(SubSeq(s, Len(s) \div 2 + 1, Len(s)))

\* s[:n]; "~" is the part left of a body atom that the cut falls inside.
Prefix(s, n) ==
    LET k == CHOOSE k \in 0..Len(s) :
                 /\ TextLen(SubSeq(s, 1, k)) <= n
                 /\ k < Len(s) => TextLen(SubSeq(s, 1, k + 1)) > n
    IN IF k < Len(s) /\ TextLen(SubSeq(s, 1, k)) < n
       THEN Append(SubSeq(s, 1, k), "~")
       ELSE SubSeq(s, 1, k)

\* ls[lo:hi] (0-based, end exclusive) as a 1-based subsequence
Slice(ls, lo, hi) == SubSeq(ls, lo + 1, IF Len(ls) < hi THEN Len(ls) ELSE hi)


(***************************************************************************)
(* json.dumps / json.loads.  A JSON text is a str whose characters are the *)
(* punctuation "[", "]", "{", "}", ",", the quote, the literals, and atoms. *)
(***************************************************************************)
Quote == "\""
Digits == {"0", "1", "5", "7"}

RECURSIVE JoinComma(_)
JoinComma(items) ==
    IF items = <<>> THEN <<>>
    ELSE IF Len(items) = 1 THEN <<items[1]>>
    ELSE <<items[1], ",">> \o JoinComma(Tail(items))

\* json.dumps(x)
JsonDumps(x) ==
    CASE x.t = "none" -> <<"null">>
      [] x.t = "str"  -> <<Quote>> \o x.v \o <<Quote>>
      [] x.t = "num"  -> x.v
      [] x.t = "bool" -> x.v
      [] x.t = "list" -> <<"[">> \o JoinComma(x.v) \o <<"]">>
      [] x.t = "dict" -> <<"{">> \o JoinComma(x.v) \o <<"}">>

\* The items of a comma separated text, or the failure marker <<"!">>.
RECURSIVE SplitComma(_)
SplitComma(s) ==
    IF s = <<>> THEN <<>>
    ELSE IF s[1] \in {",", "[", "]", "{", "}", Quote} THEN <<"!">>
    ELSE IF Len(s) = 1 THEN <<s[1]>>
    ELSE IF s[2] # "," \/ Len(s) = 2 THEN <<"!">>
    ELSE LET rest == SplitComma(SubSeq(s, 3, Len(s)))
         IN IF rest = <<"!">> THEN rest ELSE <<s[1]>> \o rest

JsonError == [ok |-> FALSE, val |-> PyNone]
JsonOk(x) == [ok |-> TRUE, val |-> x]

\* json.loads(s): ok = FALSE stands for the exception it raises.
JsonLoads(s) ==
    LET n == Len(s)
        inner == SubSeq(s, 2, n - 1)
    IN IF n = 0 THEN JsonError
       ELSE IF s = <<"null">> THEN JsonOk(PyNone)
       ELSE IF s = <<"true">> \/ s = <<"false">> THEN JsonOk(PyBool(s[1]))
       ELSE IF n = 1 THEN IF s[1] \in Digits THEN JsonOk(PyNum(s[1])) ELSE JsonError
       ELSE IF s[1] = Quote /\ s[n] = Quote
            THEN IF \E i \in 1..Len(inner) : inner[i] = Quote
                 THEN JsonError ELSE JsonOk(PyStr(inner))
       ELSE IF s[1] = "[" /\ s[n] = "]"
            THEN IF SplitComma(inner) = <<"!">>
                 THEN JsonError ELSE JsonOk(PyList(SplitComma(inner)))
       ELSE IF s[1] = "{" /\ s[n] = "}"
            THEN IF SplitComma(inner) = <<"!">>
                 THEN JsonError ELSE JsonOk(PyDict(SplitComma(inner)))
       ELSE JsonError

(***************************************************************************)
(* The JSON objects behind the body atoms: what j.get(key) returns for     *)
(* each of the four keys the handler reads (None for a key that is absent  *)
(* or null).                                                               *)
(***************************************************************************)
JObj(ti, su, de, ac) ==
    [title |-> ti, summary |-> su, decisions |-> de, action_items |-> ac]

EmptyObj == JObj(PyNone, PyNone, PyNone, PyNone)

BodyObj(b) ==
    CASE b = "B_good" ->
            \* "title":"T","summary":"S","decisions":["a","b"],"action_items":[{"task":"x"}]
            JObj(PyStr(<<"T">>), PyStr(<<"S">>),
                 PyList(<<"a", "b">>), PyList(<<"task:x">>))
      [] b = "B_str" ->
            \* "decisions":"ship","action_items":{"task":"x"}
            JObj(PyNone, PyNone, PyStr(<<"ship">>), PyDict(<<"task:x">>))
      [] b = "B_num" ->
            \* "title":7,"summary":true,"decisions":5,"action_items":"do"
            JObj(PyNum("7"), PyBool("true"), PyNum("5"), PyStr(<<"do">>))
      [] b = "B_falsy" ->
            \* "title":"","decisions":0,"action_items":{}
            JObj(PyStr(<<>>), PyNone, PyNum("0"), PyDict(<<>>))
      [] b = "B_tlist" ->
            \* "title":["T"]
            JObj(PyList(<<"T">>), PyNone, PyNone, PyNone)

(***************************************************************************)
(* re.search(r"(\{[\s\S]*\})", s): the first "{" through the last "}".     *)
(***************************************************************************)
HasOpen(c) == c = "{" \/ c \in InnerBodies
HasClose(c) == c = "}" \/ c \in InnerBodies

FirstOpen(s) ==
    CHOOSE i \in 1..Len(s) : HasOpen(s[i]) /\ \A k \in 1..(i - 1) : ~HasOpen(s[k])

LastClose(s) ==
    CHOOSE j \in 1..Len(s) : HasClose(s[j]) /\ \A k \in (j + 1)..Len(s) : ~HasClose(s[k])

\* bool(m)
ReFound(s) ==
    /\ \E i \in 1..Len(s) : HasOpen(s[i])
    /\ \E j \in 1..Len(s) : HasClose(s[j])
    /\ FirstOpen(s) <= LastClose(s)

RECURSIVE DropJsonSpace(_)
DropJsonSpace(s) ==
    IF s = <<>> THEN <<>>
    ELSE IF s[1] \in Whitespace THEN DropJsonSpace(Tail(s))
    ELSE <<s[1]>> \o DropJsonSpace(Tail(s))

\* json.loads(m.group(1)) for the span lo..hi of s: ok = FALSE stands for the
\* exception.  A span inside one body atom is its nested {"task":"x"} object.
LoadsSpan(s, lo, hi) ==
    LET mid == DropJsonSpace(SubSeq(s, lo + 1, hi - 1))
    IN IF lo = hi THEN [ok |-> TRUE, obj |-> EmptyObj]
       ELSE IF s[lo] # "{" \/ s[hi] # "}" THEN [ok |-> FALSE, obj |-> EmptyObj]
       ELSE IF mid = <<>> THEN [ok |-> TRUE, obj |-> EmptyObj]
       ELSE IF Len(mid) = 1 /\ mid[1] \in BodyNames
            THEN [ok |-> TRUE, obj |-> BodyObj(mid[1])]
       ELSE [ok |-> FALSE, obj |-> EmptyObj]

(***************************************************************************)
(* upload_audio, lines 176-194: the fields parsed out of the model reply.  *)
(***************************************************************************)
ParsedDefault(llm_text) ==
    [title |-> PyNone, summary |-> PyNone, decisions |-> PyList(<<>>),
     action_items |-> PyList(<<>>), notes |-> PyStr(llm_text)]

\* The line heuristic applied after a JSON span that does not parse.
ParseJsonThenLines(llm_text) ==
    LET r == LoadsSpan(llm_text, FirstOpen(llm_text), LastClose(llm_text))
        lines == NonBlankLines(llm_text)
    IN IF r.ok
       THEN [title |-> r.obj.title,
             summary |-> r.obj.summary,
             decisions |-> PyOr(r.obj.decisions, PyList(<<>>)),
             action_items |-> PyOr(r.obj.action_items, PyList(<<>>)),
             notes |-> PyStr(llm_text)]
       ELSE IF lines # <<>>
       THEN [ParsedDefault(llm_text) EXCEPT
                !.title = PyStr(Prefix(lines[1], TitleMax)),
                !.summary = PyStr(JoinLines(Slice(lines, 1, SummaryLast)))]
       ELSE ParsedDefault(llm_text)

ParseJson(llm_text) ==
    LET r == LoadsSpan(llm_text, FirstOpen(llm_text), LastClose(llm_text))
    IN IF r.ok
       THEN [title |-> r.obj.title,
             summary |-> r.obj.summary,
             decisions |-> PyOr(r.obj.decisions, PyList(<<>>)),
             action_items |-> PyOr(r.obj.action_items, PyList(<<>>)),
             notes |-> PyStr(llm_text)]
       ELSE ParsedDefault(llm_text)

ParseLines(llm_text) ==
    LET lines == NonBlankLines(llm_text)
    IN IF lines # <<>>
       THEN [ParsedDefault(llm_text) EXCEPT
                !.title = PyStr(Prefix(lines[1], TitleMax)),
                !.summary = PyStr(JoinLines(Slice(lines, 1, SummaryLast)))]
       ELSE ParsedDefault(llm_text)

ParseReply(llm_text) ==
    IF ReFound(llm_text) THEN ParseJson(llm_text) ELSE ParseLines(llm_text)

(***************************************************************************)
(* upload_audio, lines 163-174: the text taken out of the chat response.   *)
(* A chat response is [choices |-> sequence of contents]; a content is the *)
(* message content of that choice (<<>> when it is None or "").  The       *)
(* responses of the non-streaming call carry no delta.                     *)
(***************************************************************************)
StrChoice == <<"a", " ", "a">>
    \* str(choice0)
StrResp == <<"a", "a">>
    \* str(chat_resp)

ExtractText(chat_resp) ==
    IF Len(chat_resp.choices) > 0
    THEN IF chat_resp.choices[1] # <<>> THEN chat_resp.choices[1] ELSE StrChoice
    ELSE StrResp

(***************************************************************************)
(* The meetings table (init_db, lines 54-73).  Every column is TEXT: a     *)
(* number bound to it is stored as its text, None as NULL, a str as it is; *)
(* sqlite3 refuses to bind a list or a dict.                               *)
(***************************************************************************)
Bindable(x) == x.t \notin {"list", "dict"}

SqlText(x) ==
    CASE x.t = "none" -> PyNone
      [] x.t = "str"  -> x
      [] x.t = "num"  -> PyStr(x.v)
      [] x.t = "bool" -> PyStr(IF x.v = <<"true">> THEN <<"1">> ELSE <<"0">>)
      [] OTHER        -> PyNone

\* datetime.utcnow().isoformat() + "Z": the clock reading is one opaque atom.
CreatedAt == <<"now", "Z">>

\* id INTEGER PRIMARY KEY AUTOINCREMENT: one more than the largest id the table
\* ever held (sqlite_sequence) or holds.
LastId(rows) == IF rows = <<>> THEN 0 ELSE rows[Len(rows)].id

\* The largest id is handed out again.
NextIdNoIncrement(sq, rows) == IF sq > LastId(rows) THEN sq ELSE LastId(rows)

NextId(sq, rows) == (IF sq > LastId(rows) THEN sq ELSE LastId(rows)) + 1

\* The parameters of the INSERT, lines 205-214.
InsertParams(filename, transcript, p) ==
    [filename |-> PyStr(filename),
     transcript |-> PyStr(transcript),
     title |-> p.title,
     summary |-> p.summary,
     decisions_json |-> PyStr(JsonDumps(PyOr(p.decisions, PyList(<<>>)))),
     actions_json |-> PyStr(JsonDumps(PyOr(p.action_items, PyList(<<>>)))),
     notes |-> p.notes,
     created_at |-> PyStr(CreatedAt)]

ParamsBindable(q) ==
    /\ Bindable(q.filename) /\ Bindable(q.transcript)
    /\ Bindable(q.title) /\ Bindable(q.summary)
    /\ Bindable(q.decisions_json) /\ Bindable(q.actions_json)
    /\ Bindable(q.notes) /\ Bindable(q.created_at)

\* The row the INSERT stores.
NewRow(id, q) ==
    [id |-> id,
     filename |-> SqlText(q.filename),
     transcript |-> SqlText(q.transcript),
     title |-> SqlText(q.title),
     summary |-> SqlText(q.summary),
     decisions_json |-> SqlText(q.decisions_json),
     actions_json |-> SqlText(q.actions_json),
     notes |-> SqlText(q.notes),
     created_at |-> SqlText(q.created_at)]

\* INSERT INTO meetings: the table keeps its rows in id order.
InsertRow(rows, row) == Append(rows, row)

(***************************************************************************)
(* Responses.  kind: "record" (the dict upload_audio or get_meeting        *)
(* returns), "error" (a JSONResponse with an error field), "raised" (an    *)
(* exception that leaves the handler), "list", "health", "none".           *)
(***************************************************************************)
NoBody == <<>>
Response(kind, status, error, body) ==
    [kind |-> kind, status |-> status, error |-> error, body |-> body]

NoResponse == Response("none", 0, <<>>, NoBody)
ErrorResponse(status, msg) == Response("error", status, msg, NoBody)
Raised(exc) == Response("raised", 500, <<exc>>, NoBody)

\* lines 220-228
UploadBody(mid, transcript, p) ==
    [id |-> mid, transcript |-> PyStr(transcript), title |-> p.title,
     summary |-> p.summary, decisions |-> p.decisions,
     action_items |-> p.action_items, notes |-> p.notes]

(***************************************************************************)
(* State.                                                                  *)
(***************************************************************************)
VARIABLES
    client,           \* module level client: "set", or "none" without a credential
    tmpfiles,         \* the temporary files on disk, by name
    meetings,         \* the rows of table meetings, in id order
    seq,              \* sqlite_sequence: the largest id the table ever assigned
    pc,               \* per request slot: where upload_audio stands
    filename,         \* per slot: file.filename
    path,             \* per slot: save_upload_tmp's local path
    tmp_path,         \* per slot: upload_audio's tmp_path
    transcript_text,  \* per slot
    llm_text,         \* per slot
    parsed,           \* per slot
    result,           \* per slot: what upload_audio returns or raises
    removed,          \* per slot: how often os.remove deleted this request's file
    calls,            \* per slot: the stages this request has run
    out               \* the response of list_meetings, get_meeting or health,
                      \* when the last step was one of them

vars == <<client, tmpfiles, meetings, seq, pc, filename, path, tmp_path,
          transcript_text, llm_text, parsed, result, removed, calls, out>>

Slots == 1..NumSlots

\* mkstemp names are random and unused; the model gives slot r the names <<r, k>>.
NoPath == <<0, 0>>
Names(r) == {<<r, k>> : k \in 1..MaxPaths}
FreshName(r, files) ==
    CHOOSE nm \in Names(r) \ files : \A other \in Names(r) \ files : nm[2] <= other[2]

Filenames == {<<"f">>}
NoParsed == ParsedDefault(<<>>)

\* What the ASR call does: it raises, or returns an object whose text attribute
\* is missing (PyNone) or a str.
AsrRaise(msg) == [ok |-> FALSE, text |-> PyNone, msg |-> msg]
AsrReturn(text) == [ok |-> TRUE, text |-> text, msg |-> ""]

\* What the chat call does: it raises, or returns choices.
ChatRaise(msg) == [ok |-> FALSE, choices |-> <<>>, msg |-> msg]
ChatReturn(choices) == [ok |-> TRUE, choices |-> choices, msg |-> ""]
ChatResults(replies) ==
    {ChatRaise("rate limit"), ChatReturn(<<>>)} \cup {ChatReturn(<<rp>>) : rp \in replies}

Init ==
    /\ client \in {"set", "none"}
    /\ tmpfiles = {}
    /\ meetings = <<>>
    /\ seq = 0
    /\ pc = [r \in Slots |-> "idle"]
    /\ filename = [r \in Slots |-> <<>>]
    /\ path = [r \in Slots |-> NoPath]
    /\ tmp_path = [r \in Slots |-> NoPath]
    /\ transcript_text = [r \in Slots |-> <<>>]
    /\ llm_text = [r \in Slots |-> <<>>]
    /\ parsed = [r \in Slots |-> NoParsed]
    /\ result = [r \in Slots |-> NoResponse]
    /\ removed = [r \in Slots |-> 0]
    /\ calls = [r \in Slots |-> <<>>]
    /\ out = NoResponse

InFlight == {r \in Slots : pc[r] \notin {"idle", "done"}}

(***************************************************************************)
(* upload_audio (lines 121-233), one action per stage.                     *)
(***************************************************************************)
\* The handler without the check of the client.
ClientMissingIgnored(c) == FALSE

\* line 124
ClientMissing(c) == c = "none"

\* lines 122-128: the request arrives; without a client it is answered at once.
Receive(r, fname, maxRows) ==
    /\ pc[r] \in {"idle", "done"}
    /\ Len(meetings) + Cardinality(InFlight) < maxRows
    /\ filename' = [filename EXCEPT ![r] = fname]
    /\ path' = [path EXCEPT ![r] = NoPath]
    /\ tmp_path' = [tmp_path EXCEPT ![r] = NoPath]
    /\ transcript_text' = [transcript_text EXCEPT ![r] = <<>>]
    /\ llm_text' = [llm_text EXCEPT ![r] = <<>>]
    /\ parsed' = [parsed EXCEPT ![r] = NoParsed]
    /\ removed' = [removed EXCEPT ![r] = 0]
    /\ calls' = [calls EXCEPT ![r] = <<>>]
    /\ IF ClientMissing(client)
       THEN /\ result' = [result EXCEPT ![r] =
                   ErrorResponse(500, <<"OPENAI_API_KEY not set">>)]
            /\ pc' = [pc EXCEPT ![r] = "done"]
       ELSE /\ result' = [result EXCEPT ![r] = NoResponse]
            /\ pc' = [pc EXCEPT ![r] = "mkstemp"]
    /\ out' = NoResponse
    /\ UNCHANGED <<client, tmpfiles, meetings, seq>>

\* save_upload_tmp, lines 81-83: mkstemp creates the file, or raises.
Mkstemp(r, fails) ==
    /\ pc[r] = "mkstemp"
    /\ IF fails \/ Names(r) \subseteq tmpfiles
       THEN /\ result' = [result EXCEPT ![r] = Raised("OSError")]
            /\ pc' = [pc EXCEPT ![r] = "done"]
            /\ UNCHANGED <<tmpfiles, path>>
       ELSE /\ tmpfiles' = tmpfiles \cup {FreshName(r, tmpfiles)}
            /\ path' = [path EXCEPT ![r] = FreshName(r, tmpfiles)]
            /\ pc' = [pc EXCEPT ![r] = "write"]
            /\ UNCHANGED result
    /\ out' = NoResponse
    /\ UNCHANGED <<client, meetings, seq, filename, tmp_path, transcript_text,
                   llm_text, parsed, removed, calls>>

\* save_upload_tmp, lines 84-87, and the assignment of line 130: the upload is
\* read and written, or one of the two raises; nothing in save_upload_tmp
\* removes the file then, and upload_audio has not entered its try block.
WriteUpload(r, fails) ==
    /\ pc[r] = "write"
    /\ IF fails
       THEN /\ result' = [result EXCEPT ![r] = Raised("OSError")]
            /\ pc' = [pc EXCEPT ![r] = "done"]
            /\ UNCHANGED tmp_path
       ELSE /\ tmp_path' = [tmp_path EXCEPT ![r] = path[r]]
            /\ pc' = [pc EXCEPT ![r] = "staged"]
            /\ UNCHANGED result
    /\ out' = NoResponse
    /\ UNCHANGED <<client, tmpfiles, meetings, seq, filename, path,
                   transcript_text, llm_text, parsed, removed, calls>>

\* line 139: getattr(asr_resp, "text", "") or ""
TranscriptOf(asr) == IF Truthy(asr.text) THEN asr.text.v ELSE <<>>

\* The test without the strip.
EmptyTranscriptNoStrip(text) == text = <<>>

\* line 140: not transcript_text.strip()
EmptyTranscript(text) == Strip(text) = <<>>

\* Where a return inside the try block of line 131 goes: to the finally clause.
ReturnTo == "finally"

\* lines 132-141
Transcribe(r, asr) ==
    /\ pc[r] = "staged"
    /\ calls' = [calls EXCEPT ![r] = Append(@, "asr")]
    /\ IF ~asr.ok
       THEN /\ result' = [result EXCEPT ![r] =
                   ErrorResponse(500, <<"ASR/transcription error: ", asr.msg>>)]
            /\ pc' = [pc EXCEPT ![r] = ReturnTo]
            /\ UNCHANGED transcript_text
       ELSE /\ transcript_text' = [transcript_text EXCEPT ![r] = TranscriptOf(asr)]
            /\ IF EmptyTranscript(TranscriptOf(asr))
               THEN /\ result' = [result EXCEPT ![r] =
                           ErrorResponse(500, <<"Empty transcript returned from ASR.">>)]
                    /\ pc' = [pc EXCEPT ![r] = ReturnTo]
               ELSE /\ pc' = [pc EXCEPT ![r] = "transcribed"]
                    /\ UNCHANGED result
    /\ out' = NoResponse
    /\ UNCHANGED <<client, tmpfiles, meetings, seq, filename, path, tmp_path,
                   llm_text, parsed, removed>>

\* lines 143-174: the prompt reaches only the external model, whose answer is
\* any of the chat results.
Summarize(r, chat) ==
    /\ pc[r] = "transcribed"
    /\ calls' = [calls EXCEPT ![r] = Append(@, "chat")]
    /\ IF ~chat.ok
       THEN /\ result' = [result EXCEPT ![r] =
                   ErrorResponse(500, <<"LLM summarization error: ", chat.msg>>)]
            /\ pc' = [pc EXCEPT ![r] = ReturnTo]
            /\ UNCHANGED llm_text
       ELSE /\ llm_text' = [llm_text EXCEPT ![r] = ExtractText(chat)]
            /\ pc' = [pc EXCEPT ![r] = "summarized"]
            /\ UNCHANGED result
    /\ out' = NoResponse
    /\ UNCHANGED <<client, tmpfiles, meetings, seq, filename, path, tmp_path,
                   transcript_text, parsed, removed>>

\* lines 176-194
Parse(r) ==
    /\ pc[r] = "summarized"
    /\ calls' = [calls EXCEPT ![r] = Append(@, "parse")]
    /\ parsed' = [parsed EXCEPT ![r] = ParseReply(llm_text[r])]
    /\ pc' = [pc EXCEPT ![r] = "parsed"]
    /\ out' = NoResponse
    /\ UNCHANGED <<client, tmpfiles, meetings, seq, filename, path, tmp_path,
                   transcript_text, llm_text, result, removed>>

\* lines 196-228: the INSERT and the composed answer; a parameter sqlite3
\* cannot bind, or a fault of the storage, raises out of the handler.
Insert(r, fault) ==
    LET q == InsertParams(filename[r], transcript_text[r], parsed[r])
        mid == NextId(seq, meetings)
    IN /\ pc[r] = "parsed"
       /\ calls' = [calls EXCEPT ![r] = Append(@, "insert")]
       /\ IF fault \/ ~ParamsBindable(q)
          THEN /\ result' = [result EXCEPT ![r] = Raised("sqlite3.Error")]
               /\ UNCHANGED <<meetings, seq>>
          ELSE /\ meetings' = InsertRow(meetings, NewRow(mid, q))
               /\ seq' = mid
               /\ result' = [result EXCEPT ![r] =
                      Response("record", 200, <<>>,
                               UploadBody(mid, transcript_text[r], parsed[r]))]
       /\ pc' = [pc EXCEPT ![r] = ReturnTo]
       /\ out' = NoResponse
       /\ UNCHANGED <<client, tmpfiles, filename, path, tmp_path,
                      transcript_text, llm_text, parsed, removed>>

\* The file is never removed.
RemoveTmpSkipped(files, p) == files

\* line 231: os.remove
RemoveTmp(files, p) == files \ {p}

\* lines 229-233: the finally clause, after which the request is answered.
Finally(r) ==
    /\ pc[r] = "finally"
    /\ tmpfiles' = RemoveTmp(tmpfiles, tmp_path[r])
    /\ removed' = [removed EXCEPT ![r] =
           IF tmpfiles' # tmpfiles THEN @ + 1 ELSE @]
    /\ pc' = [pc EXCEPT ![r] = "done"]
    /\ out' = NoResponse
    /\ UNCHANGED <<client, meetings, seq, filename, path, tmp_path,
                   transcript_text, llm_text, parsed, result, calls>>

(***************************************************************************)
(* list_meetings (lines 236-244).                                          *)
(***************************************************************************)
\* SELECT id, filename, title, created_at
ListEntry(row) ==
    [id |-> row.id, filename |-> row.filename, title |-> row.title,
     created_at |-> row.created_at]

\* The query without its LIMIT.
ListQueryNoLimit(rows) ==
    [i \in 1..Len(rows) |-> ListEntry(rows[Len(rows) - i + 1])]

\* ORDER BY id DESC LIMIT 200: the table is scanned from its largest id down.
ListQuery(rows) ==
    [i \in 1..(IF Len(rows) < ListLimit THEN Len(rows) ELSE ListLimit) |->
        ListEntry(rows[Len(rows) - i + 1])]

ListMeetings ==
    /\ out' = Response("list", 200, <<>>, ListQuery(meetings))
    /\ UNCHANGED <<client, tmpfiles, meetings, seq, pc, filename, path, tmp_path,
                   transcript_text, llm_text, parsed, result, removed, calls>>

(***************************************************************************)
(* get_meeting (lines 247-269).                                            *)
(***************************************************************************)
\* lines 258-265: json.loads(col or "[]"), and [] when that raises
LoadsOrEmpty(col) ==
    LET text == IF Truthy(col) THEN col.v ELSE <<"[", "]">>
    IN IF JsonLoads(text).ok THEN JsonLoads(text).val ELSE PyList(<<>>)

\* lines 256-269
MeetingRecord(row) ==
    [id |-> row.id, filename |-> row.filename, transcript |-> row.transcript,
     title |-> row.title, summary |-> row.summary, notes |-> row.notes,
     created_at |-> row.created_at,
     decisions |-> LoadsOrEmpty(row.decisions_json),
     action_items |-> LoadsOrEmpty(row.actions_json)]

\* SELECT * FROM meetings WHERE id = ?
RowsWithId(rows, mid) == {i \in 1..Len(rows) : rows[i].id = mid}

GetResponse(rows, mid) ==
    IF RowsWithId(rows, mid) = {}
    THEN ErrorResponse(404, <<"Meeting not found">>)
    ELSE Response("record", 200, <<>>,
                  MeetingRecord(rows[CHOOSE i \in RowsWithId(rows, mid) : TRUE]))

GetMeeting(mid) ==
    /\ out' = GetResponse(meetings, mid)
    /\ UNCHANGED <<client, tmpfiles, meetings, seq, pc, filename, path, tmp_path,
                   transcript_text, llm_text, parsed, result, removed, calls>>

\* health (lines 272-274)
Health ==
    /\ out' = Response("health", 200, <<>>, <<"ok">>)
    /\ UNCHANGED <<client, tmpfiles, meetings, seq, pc, filename, path, tmp_path,
                   transcript_text, llm_text, parsed, result, removed, calls>>

(***************************************************************************)
(* Inputs.                                                                 *)
(***************************************************************************)
AsrFailures == {AsrRaise("timeout")}
AsrBlank == {AsrReturn(PyNone), AsrReturn(PyStr(<<" ", "\n">>))}
AsrResults == AsrFailures \cup AsrBlank \cup {AsrReturn(PyStr(<<" ", "a">>))}

\* The chat call raises or answers with one well-formed reply.
GoodReply == <<"{", "B_good", "}">>
ChatFixed == {ChatRaise("rate limit"), ChatReturn(<<GoodReply>>)}

\* Every reply of at most MaxReplyLen atoms, every JSON object of BodyNames,
\* and four longer replies: a line of 121 characters, seven lines, a corrupt
\* JSON span among other lines, and a JSON object among other lines.
Alphabet == {"{", "}", "\n", " ", "a"} \cup BodyNames
LongLine == [i \in 1..(TitleMax + 1) |-> "a"]
SevenLines == [i \in 1..13 |-> IF i % 2 = 1 THEN "a" ELSE "\n"]
AllReplies ==
    UNION {[1..n -> Alphabet] : n \in 0..MaxReplyLen}
    \cup {<<"{", b, "}">> : b \in BodyNames}
    \cup {LongLine, SevenLines,
          <<"a", "\n", "{", "a", "}", "\n", "a">>,
          <<"a", " ", "{", "\n", "B_num", " ", "}", "\n", "a">>}

(***************************************************************************)
(* Specifications.                                                         *)
(***************************************************************************)
Upload(r, maxRows, asrs, chats) ==
    \/ \E fname \in Filenames : Receive(r, fname, maxRows)
    \/ \E fails \in BOOLEAN : Mkstemp(r, fails)
    \/ \E fails \in BOOLEAN : WriteUpload(r, fails)
    \/ \E asr \in asrs : Transcribe(r, asr)
    \/ \E chat \in chats : Summarize(r, chat)
    \/ Parse(r)
    \/ \E fault \in BOOLEAN : Insert(r, fault)
    \/ Finally(r)

Read ==
    \/ ListMeetings
    \/ \E mid \in 1..MaxGetId : GetMeeting(mid)
    \/ Health

\* Requests in every slot, interleaved with each other and with the reads.
Next ==
    \/ \E r \in Slots : Upload(r, MaxRows, AsrResults, ChatFixed)
    \/ Read

Spec == Init /\ [][Next]_vars

\* One upload at a time into the empty table, over every model reply.
NextReplies ==
    \/ Upload(1, 1, AsrResults, ChatResults(AllReplies))
    \/ Read

SpecReplies == Init /\ [][NextReplies]_vars

\* One request at a time, until the table holds more rows than list_meetings
\* returns.
NextList ==
    \/ Upload(1, MaxRowsList, AsrResults, ChatFixed)
    \/ Read

SpecList == Init /\ [][NextList]_vars

(***************************************************************************)
(* Properties.                                                             *)
(***************************************************************************)
Done(r) == pc[r] = "done"
Ran(r, stage) == \E i \in 1..Len(calls[r]) : calls[r][i] = stage
Staged(r) == tmp_path[r] # NoPath

\* C1: a request whose upload was staged (save_upload_tmp returned a path) has
\* its temporary file on disk, never removed, until the finally clause runs,
\* and removed exactly once and gone from disk when the request is answered,
\* whether it ends in a record, an error response or a raised exception.
C1_TmpRemovedOnce ==
    \A r \in Slots :
        Staged(r) =>
            IF Done(r)
            THEN removed[r] = 1 /\ tmp_path[r] \notin tmpfiles
            ELSE removed[r] = 0 /\ tmp_path[r] \in tmpfiles

\* Two staged requests are answered, one after the insert raised and one
\* with a record.
C1_Witness ==
    \E r, s \in Slots :
        /\ Done(r) /\ Staged(r) /\ result[r].kind = "raised" /\ Ran(r, "insert")
        /\ Done(s) /\ Staged(s) /\ result[s].kind = "record"

\* C2: once the ASR call has run, a transcript that is empty or all whitespace
\* (a missing text attribute included) means an error response and no stage
\* after the ASR call; and every row of the table has a transcript with a
\* character that is not whitespace.
C2_NoBlankTranscript ==
    /\ \A r \in Slots :
          (calls[r] # <<>> /\ IsBlank(transcript_text[r])) =>
              /\ result[r].kind = "error"
              /\ calls[r] = <<"asr">>
    /\ \A i \in 1..Len(meetings) :
          /\ meetings[i].transcript.t = "str"
          /\ \E k \in 1..Len(meetings[i].transcript.v) :
                meetings[i].transcript.v[k] \notin Whitespace

\* A request given a whitespace-only transcript is answered, beside a stored row.
C2_Witness ==
    /\ Len(meetings) > 0
    /\ \E r \in Slots :
          /\ Done(r)
          /\ transcript_text[r] = <<" ", "\n">>
          /\ result[r] = ErrorResponse(500, <<"Empty transcript returned from ASR.">>)

AsrFailed(r) ==
    result[r].kind = "error" /\ result[r].error[1] = "ASR/transcription error: "
ChatFailed(r) ==
    result[r].kind = "error" /\ result[r].error[1] = "LLM summarization error: "

\* The part of C3 about the two adapters: a raising ASR call is answered with
\* status 500 and the upstream message after the ASR stage alone, a raising
\* chat call after the ASR and chat stages alone; neither request inserts.
C3_AdapterFailures ==
    \A r \in Slots :
        /\ AsrFailed(r) =>
              /\ calls[r] = <<"asr">>
              /\ result[r].status = 500 /\ result[r].error[2] = "timeout"
        /\ ChatFailed(r) =>
              /\ calls[r] = <<"asr", "chat">>
              /\ result[r].status = 500 /\ result[r].error[2] = "rate limit"

\* C3: C3_AdapterFailures, and every answered request ended with the composed
\* record or with an error response.
C3_ErrorOrSuccess ==
    /\ C3_AdapterFailures
    /\ \A r \in Slots : Done(r) => result[r].kind \in {"record", "error"}

\* C4: whatever the model reply was, get_meeting answers with decisions and
\* action_items that are lists.
C4_ArraysOnRead ==
    (out.kind = "record" /\ out.status = 200) =>
        /\ out.body.decisions.t = "list"
        /\ out.body.action_items.t = "list"

\* The reply holds a brace span and json.loads raises on it.
CorruptSpan(s) ==
    /\ ReFound(s)
    /\ ~LoadsSpan(s, FirstOpen(s), LastClose(s)).ok

Ids(rows) == {rows[i].id : i \in 1..Len(rows)}

\* C6: the table only grows, by one row at the end, in a step in which a
\* request composes its record with that row's id; the new id is greater than
\* every id in the table; the rows before it stay as they are; and the ids of
\* the table are distinct.
C6_AppendOnly ==
    /\ [](\A i, k \in 1..Len(meetings) : i < k => meetings[i].id < meetings[k].id)
    /\ [][\/ meetings' = meetings
          \/ /\ Len(meetings') = Len(meetings) + 1
             /\ SubSeq(meetings', 1, Len(meetings)) = meetings
             /\ \A id \in Ids(meetings) : id < meetings'[Len(meetings')].id
             /\ \E r \in Slots :
                   /\ pc[r] = "parsed"
                   /\ result'[r].kind = "record"
                   /\ result'[r].body.id = meetings'[Len(meetings')].id]_vars

\* The table holds two rows, and a request that failed has been answered.
C6_Witness ==
    /\ Len(meetings) >= 2
    /\ \E r \in Slots : Done(r) /\ result[r].kind = "error" /\ Ran(r, "asr")

\* C7: list_meetings answers with min(n, 200) entries of the n rows, the rows
\* of the largest ids in strictly decreasing id order, each entry with the
\* four fields id, filename, title, created_at of its row.
C7_ListNewestFirst ==
    out.kind = "list" =>
        LET n == Len(meetings)
            k == IF n < 200 THEN n ELSE 200
            listed == {out.body[i].id : i \in 1..Len(out.body)}
        IN /\ out.status = 200
           /\ Len(out.body) = k
           /\ \A i \in 1..(Len(out.body) - 1) : out.body[i].id > out.body[i + 1].id
           /\ listed \subseteq Ids(meetings)
           /\ \A id \in Ids(meetings) \ listed : \A shown \in listed : id < shown
           /\ \A i \in 1..Len(out.body) :
                 /\ DOMAIN out.body[i] = {"id", "filename", "title", "created_at"}
                 /\ \E j \in 1..n :
                       /\ meetings[j].id = out.body[i].id
                       /\ meetings[j].filename = out.body[i].filename
                       /\ meetings[j].title = out.body[i].title
                       /\ meetings[j].created_at = out.body[i].created_at

\* list_meetings has answered from a table of more than 200 rows.
C7_Witness ==
    out.kind = "list" /\ Len(meetings) > 200

\* The request whose record get_meeting has just answered with.
Fetched(r) ==
    /\ Done(r) /\ result[r].kind = "record"
    /\ out.kind = "record" /\ out.status = 200
    /\ out.body.id = result[r].body.id

\* The part of C8 about the JSON columns and the str columns: get_meeting of
\* the id an upload answered with gives the decisions, action_items,
\* transcript and notes of that answer.
C8_JsonRoundTrip ==
    \A r \in Slots :
        Fetched(r) =>
            /\ out.body.decisions = result[r].body.decisions
            /\ out.body.action_items = result[r].body.action_items
            /\ out.body.transcript = result[r].body.transcript
            /\ out.body.notes = result[r].body.notes

\* C8: C8_JsonRoundTrip, and the same title and summary.
C8_RoundTrip ==
    /\ C8_JsonRoundTrip
    /\ \A r \in Slots :
          Fetched(r) =>
              /\ out.body.title = result[r].body.title
              /\ out.body.summary = result[r].body.summary

\* C9: without a client every upload is answered at once with an error
\* response of status 500: no file is staged, no stage runs, no row is
\* inserted; list_meetings, get_meeting and health answer as they do on the
\* empty table.
C9_NoClient ==
    client = "none" =>
        /\ \A r \in Slots :
              /\ pc[r] \in {"idle", "done"}
              /\ Done(r) =>
                    /\ result[r].kind = "error" /\ result[r].status = 500
                    /\ result[r].error # <<>>
              /\ calls[r] = <<>>
              /\ path[r] = NoPath /\ tmp_path[r] = NoPath
        /\ tmpfiles = {}
        /\ meetings = <<>>
        /\ out.kind = "list" => out.status = 200 /\ out.body = <<>>
        /\ out.kind = "error" => out.status = 404
        /\ out.kind = "health" => out.status = 200 /\ out.body = <<"ok">>
        /\ out.kind \in {"none", "list", "error", "health"}

\* Without a client, an upload has been answered and health answers.
C9_Witness ==
    /\ client = "none"
    /\ \E r \in Slots : Done(r)
    /\ out.kind = "health"

\* C10: when reading or writing the upload raises after mkstemp created the
\* file, the exception reaches the caller and the file is not left on disk.
C10_NoFileLeftByStaging ==
    \A r \in Slots :
        (Done(r) /\ path[r] # NoPath /\ ~Staged(r)) =>
            /\ result[r].kind = "raised"
            /\ path[r] \notin tmpfiles

====
